---- MODULE Spec2Model ----
(***************************************************************************)
(* Model of paper_data/validate_results.py: the availability monitor       *)
(* (wait_for_cactus_service), the identifier resolver (resolve_with_cirpy, *)
(* validate_identifier, fetch_smiles_from_pubchem), molecule_has_carbon    *)
(* and the batch driver process_results with its three output streams.     *)
(*                                                                         *)
(* A CSV field is a sequence of one-character strings, a row a sequence of *)
(* fields.  Python's 0-based row[i] is row[i + 1] here.                    *)
(***************************************************************************)
EXTENDS Integers, Sequences, FiniteSets, TLC

(* ------------------------------------------------------------------ *)
(* Bounds of the model                                                 *)
(* ------------------------------------------------------------------ *)
\* data rows in the input file
MaxRows == 2
\* failed probes within one call of wait_for_cactus_service
MaxProbeFails == 2
\* backend-down errors of cirpy.resolve within one call of resolve_with_cirpy
MaxDown == 2

(* ------------------------------------------------------------------ *)
(* Literals of the program                                             *)
(* ------------------------------------------------------------------ *)
NULL == <<"n", "u", "l", "l">>
FAILED == <<"f", "a", "i", "l", "e", "d">>
YES == <<"Y", "e", "s">>
NO == <<"N", "o">>
CANONICAL_SMILES == <<"c", "s">>
IUPAC_RESOLVED == <<"i", "r">>
SMILES_RESOLVED == <<"s", "r">>
INCHI_RESOLVED == <<"n", "r">>
\* row[:10] and headers[:10]
NoInfoWidth == 10
AuxFirst_from_one == 2 - 1
\* i = 2 ... while i < 7
AuxFirst == 2
AuxEnd_one_more == 7 + 1
AuxEnd == 7
\* atom.GetAtomicNum() == 6
CarbonZ == 6

(* ------------------------------------------------------------------ *)
(* Input data the model draws from                                     *)
(* ------------------------------------------------------------------ *)
EMPTY == <<>>
NAME == <<"a">>
BRACKET == <<"[", "X", "]">>
X == <<"x">>
REF == <<"r">>

H(n) == <<"h", ToString(n)>>

\* the input header: ten columns
HeaderSet == { [i \in 1..10 |-> H(i - 1)] }

RowSet ==
    { <<>>,                                                         \* blank line
      <<NAME, X, NULL, NULL>>,                                      \* runs out of fields at row[4]
      <<NULL, X, X, NULL, NULL, NULL, NULL, EMPTY, EMPTY, REF, X>>, \* eleven fields
      <<FAILED, X, NULL, NULL, NULL, NULL, X, EMPTY, EMPTY, REF>>,
      <<NAME, X, NULL, NULL, NULL, NULL, NULL, EMPTY, EMPTY, REF>>, \* fields 2..6 all 'null'
      <<NAME, EMPTY, X, NULL, NULL, NULL, NULL, EMPTY, EMPTY, REF>>,
      <<BRACKET, X, NULL, NULL, NULL, NULL, X, EMPTY, EMPTY, REF>>, \* only field 6 useful
      <<EMPTY, X, X>> }                                             \* empty identifier, short row

(* ------------------------------------------------------------------ *)
(* The cheminformatics toolkit (rdkit.Chem), an external dependency    *)
(* ------------------------------------------------------------------ *)
None == [kind |-> "None"]
Raise == [kind |-> "Raise"]
\* methanol written "OC": the carbon is the second atom
MolC == [kind |-> "Mol", atoms |-> <<8, 6>>, canon |-> <<"C", "O">>]
\* a sodium ion: no carbon
MolNa == [kind |-> "Mol", atoms |-> <<11>>, canon |-> <<"[", "N", "a", "+", "]">>]

ParseAnswers == {None, Raise, MolC, MolNa}

\* what the toolkit answers for an identifier of the input: fixed for a run.
\* A parser that raises is taken with the other parser raising too, or giving
\* the carbon structure; to validate_identifier a raising parser is otherwise
\* one that returns None.
Toolkits ==
    { t \in [smiles : ParseAnswers, inchi : ParseAnswers] :
         \/ t.smiles # Raise /\ t.inchi # Raise
         \/ t.smiles = Raise /\ t.inchi \in {Raise, MolC} }

\* structure strings the two network services return
S_OC == <<"O", "C">>
S_NA == <<"[", "N", "a", "+", "]">>
S_BAD == <<"?">>

(* ------------------------------------------------------------------ *)
(* State                                                               *)
(* ------------------------------------------------------------------ *)
VARIABLES
    pc,            \* where the single thread of the program is
    toolkit,       \* the toolkit's answers for identifiers of the input
    header,        \* the input's header row, once read
    input,         \* the data rows the reader has yielded so far
    row,           \* process_results: the loop variable
    iupac_valid, iupac_mol, smiles_valid, smiles_mol, inchi_valid, inchi_mol,
    valid_out, invalid_out, no_info_out,   \* rows written to the three files
    files_open,    \* the with-block of process_results is active
    wait_ret,      \* caller of the running wait_for_cactus_service
    probe_fails,   \* failed probes of the running (or last) wait
    sleeps,        \* time.sleep calls of the running (or last) wait
    last_probe,    \* outcome of its latest probe
    downs,         \* backend-down errors seen by the running resolve_with_cirpy
    calls,         \* the calls made for the current row by process_results and
                   \* validate_identifier, each named once, in the order of
                   \* their first execution (the monitor's probes show in pc
                   \* and in its counters)
    vi_raised,     \* an exception left validate_identifier
    resp,          \* what cirpy, PubChem and Chem.MolToSmiles answered for
                   \* the current row
    \* sample_results.py, process_csv
    at,            \* where process_csv stands
    csv_file,      \* the lines of the file it is given
    df,            \* the DataFrame read from the file, later shuffled
    original_headers,
    index,         \* the rows of df that iterrows has handed out
    valid_rows, null_rows, failed_rows,
    valid_df, null_df, failed_df,
    valid_csv, null_csv, failed_csv   \* the lines of the three files written

vars == <<pc, toolkit, header, input, row,
          iupac_valid, iupac_mol, smiles_valid, smiles_mol, inchi_valid, inchi_mol,
          valid_out, invalid_out, no_info_out, files_open,
          wait_ret, probe_fails, sleeps, last_probe, downs, calls, vi_raised,
          resp>>

locals == <<iupac_valid, iupac_mol, smiles_valid, smiles_mol, inchi_valid, inchi_mol>>
streams == <<valid_out, invalid_out, no_info_out>>
waitvars == <<wait_ret, probe_fails, sleeps, last_probe>>

\* the state of process_csv of sample_results.py
sampler == <<at, csv_file, df, original_headers, index,
             valid_rows, null_rows, failed_rows, valid_df, null_df, failed_df,
             valid_csv, null_csv, failed_csv>>

(* ------------------------------------------------------------------ *)
(* Python helpers                                                      *)
(* ------------------------------------------------------------------ *)
\* s[:n]
Take(s, n) == SubSeq(s, 1, IF Len(s) < n THEN Len(s) ELSE n)

\* identifier.startswith(c)
startswith(s, c) == Len(s) >= 1 /\ s[1] = c

\* a or b, on structures: None is the only falsy one
Or(a, b) == IF a # None THEN a ELSE b

\* the call log after the calls of made, in order
RECURSIVE Log(_, _)
Log(log, made) ==
    IF made = <<>>
    THEN log
    ELSE Log(IF \E i \in DOMAIN log : log[i] = Head(made)
             THEN log
             ELSE Append(log, Head(made)),
             Tail(made))

\* a written row: its fields, and the input row it came from (0: the header)
Entry(k, fields) == [src |-> k, fields |-> fields]

(* ------------------------------------------------------------------ *)
(* Toolkit calls                                                       *)
(* ------------------------------------------------------------------ *)
MolFromSmiles(s) ==
    CASE s = S_OC -> MolC
      [] s = S_NA -> MolNa
      [] s = S_BAD -> None
      [] OTHER -> toolkit.smiles

MolFromInchi(s) == toolkit.inchi

molecule_has_carbon_any_atom(mol) == mol # None

\* molecule_has_carbon
molecule_has_carbon(mol) ==
    IF mol = None
    THEN FALSE
    ELSE \E i \in 1..Len(mol.atoms) : mol.atoms[i] = CarbonZ

(* ------------------------------------------------------------------ *)
(* validate_identifier                                                 *)
(* ------------------------------------------------------------------ *)
\* what a call hands to its caller: a pair (valid, mol), or an exception
Returned(valid, mol, made) ==
    [raised |-> FALSE, valid |-> valid, mol |-> mol, calls |-> made]
Raised(made) ==
    [raised |-> TRUE, valid |-> FALSE, mol |-> None, calls |-> made]

short_circuit_null_only(identifier) == identifier = NULL

\* if identifier == 'null' or not identifier
short_circuit(identifier) == identifier = NULL \/ identifier = <<>>

\* the 'smiles' branch of the try block
smiles_body(identifier) ==
    IF startswith(identifier, "[")
    THEN LET mol == MolFromSmiles(identifier)
         IN  IF mol = Raise
             THEN Raised(<<"MolFromSmiles">>)
             ELSE Returned(mol # None, mol, <<"MolFromSmiles">>)
    ELSE Returned(FALSE, None, <<>>)

\* the 'inchi' branch of the try block
inchi_body(identifier) ==
    LET mol == MolFromInchi(identifier)
    IN  IF mol = Raise
        THEN Raised(<<"MolFromInchi">>)
        ELSE Returned(mol # None, mol, <<"MolFromInchi">>)

outer_except_missing(r) == r

\* except Exception as e: log; then return False, None
outer_except(r) ==
    IF r.raised THEN Returned(FALSE, None, r.calls) ELSE r

\* validate_identifier(identifier, 'smiles' | 'inchi')
validate_identifier(identifier, identifier_type) ==
    IF short_circuit(identifier)
    THEN Returned(FALSE, None, <<>>)
    ELSE IF identifier_type = "smiles"
         THEN outer_except(smiles_body(identifier))
         ELSE outer_except(inchi_body(identifier))

\* a call that was not made for the current row has no answer
Unasked == [kind |-> "unasked"]

\* no call made yet for the current row
NoResp == [cirpy |-> Unasked, pubchem |-> Unasked, canon |-> Unasked]

\* texts of the exceptions cirpy.resolve raises: str(e)
E_504 ==
    <<"H", "T", "T", "P", " ", "E", "r", "r", "o", "r", " ", "5", "0",
    "4">>
E_TIMEOUT ==
    <<"R", "e", "a", "d", " ", "T", "i", "m", "e", "o", "u", "t">>
E_CONNECTION ==
    <<"F", "a", "i", "l", "e", "d", " ", "t", "o", " ", "e", "s", "t",
    "a", "b", "l", "i", "s", "h", " ", "a", " ", "n", "e", "w", " ", "c",
    "o", "n", "n", "e", "c", "t", "i", "o", "n">>
E_TIMED_OUT ==
    <<"t", "i", "m", "e", "d", " ", "o", "u", "t">>

ErrorTexts == {E_504, E_TIMEOUT, E_CONNECTION, E_TIMED_OUT}

\* the three needles of the test on error_str
GATEWAY_504 ==
    <<"5", "0", "4">>
TIMEOUT ==
    <<"t", "i", "m", "e", "o", "u", "t">>
NO_CONNECTION ==
    <<"f", "a", "i", "l", "e", "d", " ", "t", "o", " ", "e", "s", "t",
    "a", "b", "l", "i", "s", "h", " ", "a", " ", "n", "e", "w", " ", "c",
    "o", "n", "n", "e", "c", "t", "i", "o", "n">>

UPPER ==
    <<"A", "B", "C", "D", "E", "F", "G", "H", "I", "J", "K", "L", "M",
      "N", "O", "P", "Q", "R", "S", "T", "U", "V", "W", "X", "Y", "Z">>
LOWER ==
    <<"a", "b", "c", "d", "e", "f", "g", "h", "i", "j", "k", "l", "m",
      "n", "o", "p", "q", "r", "s", "t", "u", "v", "w", "x", "y", "z">>

\* str.lower()
lower(s) ==
    [i \in DOMAIN s |->
        IF \E j \in DOMAIN UPPER : UPPER[j] = s[i]
        THEN LOWER[CHOOSE j \in DOMAIN UPPER : UPPER[j] = s[i]]
        ELSE s[i]]

\* needle in s
contains(s, needle) ==
    \E i \in 1..(Len(s) - Len(needle) + 1) :
        SubSeq(s, i, i + Len(needle) - 1) = needle

backend_down_504_only(error_str) == contains(error_str, GATEWAY_504)

\* if "504" in error_str or "timeout" in error_str.lower() or
\* "failed to establish a new connection" in error_str.lower()
backend_down(error_str) ==
    \/ contains(error_str, GATEWAY_504)
    \/ contains(lower(error_str), TIMEOUT)
    \/ contains(lower(error_str), NO_CONNECTION)

\* the error texts on which the test of resolve_with_cirpy holds
BackendDownTexts == { t \in ErrorTexts : backend_down(t) }

\* outcomes of cirpy.resolve(identifier, 'smiles')
CirpyOutcomes ==
    { [kind |-> "error", text |-> t] : t \in ErrorTexts }
    \cup { [kind |-> "none"] }
    \cup { [kind |-> "str", s |-> s] : s \in {S_OC, S_NA, S_BAD} }

\* outcomes of fetch_smiles_from_pubchem's request
PubchemOutcomes ==
    { [kind |-> "error"], [kind |-> "none"] }
    \cup { [kind |-> "str", s |-> s] : s \in {S_OC, S_NA, S_BAD} }

stage_any_string(o) ==
    IF o.kind = "str"
    THEN [yield |-> TRUE, mol |-> MolFromSmiles(o.s), calls |-> <<"MolFromSmiles">>]
    ELSE [yield |-> FALSE, mol |-> None, calls |-> <<>>]

\* a stage of the IUPAC chain, given what its service answered:
\* if smiles: mol = MolFromSmiles(smiles); if mol: return True, mol
stage(o) ==
    IF o.kind = "str"
    THEN LET mol == MolFromSmiles(o.s)
         IN  [yield |-> mol \notin {None, Raise}, mol |-> mol,
              calls |-> <<"MolFromSmiles">>]
    ELSE [yield |-> FALSE, mol |-> None, calls |-> <<>>]

(* ------------------------------------------------------------------ *)
(* process_results: the pure parts                                     *)
(* ------------------------------------------------------------------ *)
\* headers = next(reader) + [...]; headers.insert(0, 'canonical_smiles')
headers(h) ==
    <<CANONICAL_SMILES>> \o h \o <<IUPAC_RESOLVED, SMILES_RESOLVED, INCHI_RESOLVED>>

is_placeholder_null_only(iupac) == iupac = NULL

\* if iupac == 'null' or iupac == 'failed'
is_placeholder(iupac) == iupac = NULL \/ iupac = FAILED

\* the while loop over columns 2..6: "yes", "no", or "IndexError"
RECURSIVE useful_info(_, _)
useful_info(r, i) ==
    IF ~(i < AuxEnd)
    THEN "no"
    ELSE IF i >= Len(r)
         THEN "IndexError"
         ELSE IF r[i + 1] # NULL
              THEN "yes"
              ELSE useful_info(r, i + 1)

\* the body of the loop up to the first validate_identifier call
row_head(r) ==
    IF Len(r) = 0
    THEN "IndexError"
    ELSE IF is_placeholder(r[1])
         THEN "no_info"
         ELSE LET u == useful_info(r, AuxFirst)
              IN  CASE u = "IndexError" -> "IndexError"
                    [] u = "no" -> "no_info"
                    [] u = "yes" -> "resolve"

yes_no_swapped(b) == IF b THEN NO ELSE YES

\* 'Yes' if ... else 'No'
yes_no(b) == IF b THEN YES ELSE NO

resolution_info_swapped(iv, sv, nv) == <<yes_no(sv), yes_no(iv), yes_no(nv)>>

\* resolution_info = [iupac, smiles, inchi]
resolution_info(iv, sv, nv) == <<yes_no(iv), yes_no(sv), yes_no(nv)>>

except_fields_bare(r) == r

\* except Exception as e: ... invalid_writer.writerow(row + ['No', 'No', 'No'])
except_fields(r) == r \o <<NO, NO, NO>>

except_stream_log_only == "log"

\* the file the except clause of the row writes to
except_stream == "invalid"

\* the tail of the loop body, from resolution_info on; canon_ok: Chem.MolToSmiles
\* returned (an exception goes to the row's except clause)
classify(r, iv, im, sv, sm, nv, nm, canon_ok) ==
    LET info == resolution_info(iv, sv, nv)
        mol == Or(Or(im, sm), nm)
    IN  IF iv \/ sv \/ nv
        THEN IF ~canon_ok
             THEN [stream |-> except_stream, row |-> r, fields |-> except_fields(r)]
             ELSE IF molecule_has_carbon(mol)
                  THEN [stream |-> "valid", row |-> <<mol.canon>> \o r,
                        fields |-> <<mol.canon>> \o r \o info]
                  ELSE [stream |-> "invalid", row |-> <<mol.canon>> \o r,
                        fields |-> <<mol.canon>> \o r \o info]
        ELSE [stream |-> "invalid", row |-> r, fields |-> r \o info]

after_iupac_always_smiles(iv) == "smiles"

\* if not iupac_valid: ... validate_identifier(iupac, 'smiles')
after_iupac(iv) == IF iv THEN "finish" ELSE "smiles"

after_smiles_always_inchi(sv) == "inchi"

\* if not smiles_valid: ... validate_identifier(iupac, 'inchi')
after_smiles(sv) == IF sv THEN "finish" ELSE "inchi"

(* ------------------------------------------------------------------ *)
(* wait_for_cactus_service                                             *)
(* ------------------------------------------------------------------ *)
\* requests.get(cactus_url, timeout=10): resp.ok, not resp.ok, or an exception
ProbeOutcomes == {"ok", "not_ok", "exception"}

sleeps_after_exception_only(o) == o = "exception"

\* both the else branch and the except clause fall through to time.sleep
sleeps_after(o) == o # "ok"

\* where the caller of wait_for_cactus_service goes on
wait_return == IF wait_ret = "main" THEN "open" ELSE "cirpy"

Probe ==
    /\ pc = "wait_probe"
    /\ \E o \in ProbeOutcomes :
          /\ o # "ok" => probe_fails < MaxProbeFails
          /\ last_probe' = o
          /\ IF o = "ok"
             THEN /\ pc' = wait_return
                  /\ probe_fails' = probe_fails
             ELSE /\ pc' = IF sleeps_after(o) THEN "wait_sleep" ELSE "wait_probe"
                  /\ probe_fails' = probe_fails + 1
    /\ UNCHANGED <<toolkit, header, input, row, locals, streams, files_open,
                   wait_ret, sleeps, downs, calls, vi_raised, resp>>
    /\ UNCHANGED sampler

Sleep ==
    /\ pc = "wait_sleep"
    /\ sleeps' = sleeps + 1
    /\ pc' = "wait_probe"
    /\ UNCHANGED <<toolkit, header, input, row, locals, streams, files_open,
                   wait_ret, probe_fails, last_probe, downs, calls, vi_raised,
                   resp>>
    /\ UNCHANGED sampler

(* ------------------------------------------------------------------ *)
(* process_results                                                     *)
(* ------------------------------------------------------------------ *)
Write_at_front(stream, e) ==
    /\ valid_out' = IF stream = "valid" THEN <<e>> \o valid_out ELSE valid_out
    /\ invalid_out' = IF stream = "invalid" THEN <<e>> \o invalid_out ELSE invalid_out
    /\ no_info_out' = IF stream = "no_info" THEN <<e>> \o no_info_out ELSE no_info_out

\* writer.writerow on one of the three files
Write(stream, e) ==
    /\ valid_out' = IF stream = "valid" THEN Append(valid_out, e) ELSE valid_out
    /\ invalid_out' = IF stream = "invalid" THEN Append(invalid_out, e) ELSE invalid_out
    /\ no_info_out' = IF stream = "no_info" THEN Append(no_info_out, e) ELSE no_info_out

\* open the four files, read the header, write the three headers
WriteHeaders ==
    /\ pc = "open"
    /\ \E h \in HeaderSet :
          /\ header' = h
          /\ valid_out' = <<Entry(0, headers(h))>>
          /\ invalid_out' = <<Entry(0, headers(h))>>
          /\ no_info_out' = <<Entry(0, Take(headers(h), NoInfoWidth))>>
    /\ files_open' = TRUE
    /\ pc' = "next"
    /\ probe_fails' = 0 /\ sleeps' = 0 /\ last_probe' = "none"
    /\ UNCHANGED <<toolkit, input, row, locals, wait_ret, downs, calls, vi_raised,
                   resp>>
    /\ UNCHANGED sampler

\* for row in reader: the next row, and the loop body up to the first
\* validate_identifier call
RowHead ==
    /\ pc = "next"
    /\ Len(input) < MaxRows
    /\ \E r \in RowSet :
          /\ input' = Append(input, r)
          /\ row' = r
          /\ LET k == Len(input) + 1
                 h == row_head(r)
             IN  CASE h = "IndexError" ->
                        /\ Write(except_stream, Entry(k, except_fields(r)))
                        /\ pc' = "next"
                   [] h = "no_info" ->
                        /\ Write("no_info", Entry(k, Take(r, NoInfoWidth)))
                        /\ pc' = "next"
                   [] h = "resolve" ->
                        /\ UNCHANGED streams
                        /\ pc' = "iupac"
    /\ iupac_valid' = FALSE /\ iupac_mol' = None
    /\ smiles_valid' = FALSE /\ smiles_mol' = None
    /\ inchi_valid' = FALSE /\ inchi_mol' = None
    /\ calls' = <<>>
    /\ resp' = NoResp
    /\ UNCHANGED <<toolkit, header, files_open, waitvars, downs, vi_raised>>
    /\ UNCHANGED sampler

\* the reader is exhausted: the with block closes the four files and
\* process_results returns, which ends the life of its locals
Close ==
    /\ pc = "next"
    /\ files_open' = FALSE
    /\ pc' = "done"
    /\ row' = <<>>
    /\ iupac_valid' = FALSE /\ iupac_mol' = None
    /\ smiles_valid' = FALSE /\ smiles_mol' = None
    /\ inchi_valid' = FALSE /\ inchi_mol' = None
    /\ calls' = <<>>
    /\ resp' = NoResp
    /\ UNCHANGED <<toolkit, header, input, streams, waitvars, downs, vi_raised>>
    /\ UNCHANGED sampler

\* validate_identifier(iupac, 'iupac'): the entry test
IupacEnter ==
    /\ pc = "iupac"
    /\ calls' = Log(calls, <<"validate_identifier:iupac">>)
    /\ IF short_circuit(row[1])
       THEN pc' = after_iupac(FALSE)
       ELSE pc' = "cirpy"
    /\ downs' = 0
    /\ UNCHANGED <<toolkit, header, input, row, locals, streams, files_open,
                   waitvars, vi_raised, resp>>
    /\ UNCHANGED sampler

\* resolve_with_cirpy: one pass of its loop, and stage 1 of the chain
CirpyCall ==
    /\ pc = "cirpy"
    /\ \E o \in CirpyOutcomes :
          IF o.kind = "error" /\ o.text \in BackendDownTexts
          THEN /\ downs < MaxDown
               /\ downs' = downs + 1
               /\ calls' = Log(calls, <<"cirpy.resolve">>)
               /\ wait_ret' = "cirpy"
               /\ pc' = "wait_probe"
               /\ UNCHANGED <<locals, resp>>
          ELSE LET st == stage(o)
               IN  /\ calls' = Log(calls, <<"cirpy.resolve">> \o st.calls)
                   /\ IF st.yield
                      THEN /\ iupac_valid' = TRUE
                           /\ iupac_mol' = st.mol
                           /\ pc' = after_iupac(TRUE)
                      ELSE /\ UNCHANGED <<iupac_valid, iupac_mol>>
                           /\ pc' = "pubchem"
                   /\ downs' = 0
                   /\ resp' = [resp EXCEPT !.cirpy = o]
                   /\ UNCHANGED <<wait_ret, smiles_valid, smiles_mol,
                                  inchi_valid, inchi_mol>>
    /\ probe_fails' = 0 /\ sleeps' = 0 /\ last_probe' = "none"
    /\ UNCHANGED <<toolkit, header, input, row, streams, files_open, vi_raised>>
    /\ UNCHANGED sampler

\* fetch_smiles_from_pubchem: every exception is caught inside, None is returned
fetch_smiles_from_pubchem(o) == IF o.kind = "str" THEN o ELSE [kind |-> "none"]

\* stage 2 of the chain, and the return of validate_identifier(iupac, 'iupac')
Pubchem ==
    /\ pc = "pubchem"
    /\ \E o \in PubchemOutcomes :
          LET st == stage(fetch_smiles_from_pubchem(o))
          IN  /\ calls' = Log(calls, <<"fetch_smiles_from_pubchem">> \o st.calls)
              /\ iupac_valid' = st.yield
              /\ iupac_mol' = IF st.yield THEN st.mol ELSE None
              /\ pc' = after_iupac(st.yield)
              /\ resp' = [resp EXCEPT !.pubchem = fetch_smiles_from_pubchem(o)]
    /\ UNCHANGED <<toolkit, header, input, row, smiles_valid, smiles_mol,
                   inchi_valid, inchi_mol, streams, files_open, waitvars,
                   downs, vi_raised>>
    /\ UNCHANGED sampler

\* smiles_valid, smiles_mol = validate_identifier(iupac, 'smiles')
ValidateSmiles ==
    /\ pc = "smiles"
    /\ LET res == validate_identifier(row[1], "smiles")
       IN  /\ calls' = Log(calls, <<"validate_identifier:smiles">> \o res.calls)
           /\ vi_raised' = (vi_raised \/ res.raised)
           /\ IF res.raised
              THEN /\ Write(except_stream, Entry(Len(input), except_fields(row)))
                   /\ pc' = "next"
                   /\ UNCHANGED <<smiles_valid, smiles_mol>>
              ELSE /\ smiles_valid' = res.valid
                   /\ smiles_mol' = res.mol
                   /\ pc' = after_smiles(res.valid)
                   /\ UNCHANGED streams
    /\ UNCHANGED <<toolkit, header, input, row, iupac_valid, iupac_mol,
                   inchi_valid, inchi_mol, files_open, waitvars, downs, resp>>
    /\ UNCHANGED sampler

\* inchi_valid, inchi_mol = validate_identifier(iupac, 'inchi')
ValidateInchi ==
    /\ pc = "inchi"
    /\ LET res == validate_identifier(row[1], "inchi")
       IN  /\ calls' = Log(calls, <<"validate_identifier:inchi">> \o res.calls)
           /\ vi_raised' = (vi_raised \/ res.raised)
           /\ IF res.raised
              THEN /\ Write(except_stream, Entry(Len(input), except_fields(row)))
                   /\ pc' = "next"
                   /\ UNCHANGED <<inchi_valid, inchi_mol>>
              ELSE /\ inchi_valid' = res.valid
                   /\ inchi_mol' = res.mol
                   /\ pc' = "finish"
                   /\ UNCHANGED streams
    /\ UNCHANGED <<toolkit, header, input, row, iupac_valid, iupac_mol,
                   smiles_valid, smiles_mol, files_open, waitvars, downs, resp>>
    /\ UNCHANGED sampler

\* resolution_info, the canonical form, the carbon test and the row's one write
Finish ==
    /\ pc = "finish"
    /\ \E canon_ok \in BOOLEAN :
          LET c == classify(row, iupac_valid, iupac_mol, smiles_valid, smiles_mol,
                            inchi_valid, inchi_mol, canon_ok)
          IN  /\ Write(c.stream, Entry(Len(input), c.fields))
              /\ row' = c.row
              /\ calls' = IF iupac_valid \/ smiles_valid \/ inchi_valid
                          THEN Log(calls, <<"MolToSmiles">>
                                            \o (IF canon_ok THEN <<>> ELSE <<"raise">>))
                          ELSE calls
              /\ resp' = IF iupac_valid \/ smiles_valid \/ inchi_valid
                         THEN [resp EXCEPT !.canon =
                                 [kind |-> IF canon_ok THEN "ok" ELSE "raise"]]
                         ELSE resp
    /\ pc' = "next"
    /\ UNCHANGED <<toolkit, header, input, locals, files_open, waitvars,
                   downs, vi_raised>>
    /\ UNCHANGED sampler

(* ------------------------------------------------------------------ *)
(* The program: __main__ waits for the service, then runs the batch    *)
(* ------------------------------------------------------------------ *)
\* process_csv has not been called
SamplerIdle ==
    /\ at = "idle"
    /\ csv_file = <<>> /\ df = <<>> /\ original_headers = <<>> /\ index = 0
    /\ valid_rows = <<>> /\ null_rows = <<>> /\ failed_rows = <<>>
    /\ valid_df = <<>> /\ null_df = <<>> /\ failed_df = <<>>
    /\ valid_csv = <<>> /\ null_csv = <<>> /\ failed_csv = <<>>

Init ==
    /\ pc = "wait_probe"
    /\ toolkit \in Toolkits
    /\ header = <<>>
    /\ input = <<>>
    /\ row = <<>>
    /\ iupac_valid = FALSE /\ iupac_mol = None
    /\ smiles_valid = FALSE /\ smiles_mol = None
    /\ inchi_valid = FALSE /\ inchi_mol = None
    /\ valid_out = <<>> /\ invalid_out = <<>> /\ no_info_out = <<>>
    /\ files_open = FALSE
    /\ wait_ret = "main"
    /\ probe_fails = 0 /\ sleeps = 0 /\ last_probe = "none"
    /\ downs = 0
    /\ calls = <<>>
    /\ vi_raised = FALSE
    /\ resp = NoResp
    /\ SamplerIdle

Next ==
    \/ Probe
    \/ Sleep
    \/ WriteHeaders
    \/ RowHead
    \/ Close
    \/ IupacEnter
    \/ CirpyCall
    \/ Pubchem
    \/ ValidateSmiles
    \/ ValidateInchi
    \/ Finish

Spec == Init /\ [][Next]_vars

(* ------------------------------------------------------------------ *)
(* Vocabulary of the properties                                        *)
(* ------------------------------------------------------------------ *)
\* a row is being classified: it has been read and not yet written
InProgress ==
    \/ pc \in {"iupac", "cirpy", "pubchem", "smiles", "inchi", "finish"}
    \/ pc \in {"wait_probe", "wait_sleep"} /\ wait_ret = "cirpy"

\* the number of input rows whose classification is over
RowsDone == IF InProgress THEN Len(input) - 1 ELSE Len(input)

\* the locals and the call log are those of a finished row, the latest one
LastDone == pc = "next" /\ Len(input) >= 1

\* the entries of a stream that come from input row k
From(s, k) == { i \in DOMAIN s : s[i].src = k }

\* the data rows of a stream
DataRows(s) == { i \in DOMAIN s : s[i].src # 0 }

\* input row k was written to stream s, once, and to no other stream
OnlyIn(s, k) ==
    /\ Cardinality(From(s, k)) = 1
    /\ Cardinality(From(valid_out, k)) + Cardinality(From(invalid_out, k))
         + Cardinality(From(no_info_out, k)) = 1

\* the one entry of stream s that comes from input row k
TheEntry(s, k) == s[CHOOSE i \in From(s, k) : TRUE]

\* the last three fields of a written row
Flags(fields) == SubSeq(fields, Len(fields) - 2, Len(fields))

FirstTen(r) == [i \in 1..(IF Len(r) < 10 THEN Len(r) ELSE 10) |-> r[i]]

\* "validate_identifier was called for this format" in the current row
Attempted(fmt) ==
    \E i \in DOMAIN calls : calls[i] = "validate_identifier:" \o fmt

\* the row being (or last) classified reached the resolution step
ReachedResolution == Attempted("iupac")

(* ------------------------------------------------------------------ *)
(* C1                                                                  *)
(* ------------------------------------------------------------------ *)
\* C1: every input data row is written to exactly one of the three streams,
\* exactly once, as soon as its classification is over (and not before); the
\* data rows of the three streams sum to the number of rows classified, which
\* after the run is the number of input rows.
C1_ExactlyOneBucket ==
    /\ \A k \in 1..Len(input) :
          Cardinality(From(valid_out, k)) + Cardinality(From(invalid_out, k))
            + Cardinality(From(no_info_out, k)) = (IF k <= RowsDone THEN 1 ELSE 0)
    /\ files_open \/ pc = "done" =>
          Cardinality(DataRows(valid_out)) + Cardinality(DataRows(invalid_out))
            + Cardinality(DataRows(no_info_out)) = RowsDone
    /\ pc = "done" => RowsDone = Len(input)

\* a finished run over a blank line and a row that runs out of fields
C1_Witness ==
    /\ pc = "done"
    /\ Len(input) = 2
    /\ input[1] = <<>>
    /\ input[2] = <<NAME, X, NULL, NULL>>
    /\ Cardinality(DataRows(invalid_out)) = 2

(* ------------------------------------------------------------------ *)
(* C2                                                                  *)
(* ------------------------------------------------------------------ *)
\* C2: a classified row whose field 0 is 'null' or 'failed' is in the no_info
\* stream and in no other, whatever its other fields are, and what was written
\* is its first ten fields, unchanged.
C2_PlaceholderIsNoInfo ==
    \A k \in 1..RowsDone :
       Len(input[k]) >= 1 /\ input[k][1] \in {NULL, FAILED} =>
          /\ OnlyIn(no_info_out, k)
          /\ TheEntry(no_info_out, k).fields = FirstTen(input[k])

\* an eleven-field 'null' row and a 'failed' row with useful fields, both written
C2_Witness ==
    /\ RowsDone = 2
    /\ Len(input[1]) = 11 /\ input[1][1] = NULL
    /\ Len(input[2]) = 10 /\ input[2][1] = FAILED /\ input[2][7] = X
    /\ Len(no_info_out) = 3
    /\ Len(no_info_out[2].fields) = 10

(* ------------------------------------------------------------------ *)
(* C3                                                                  *)
(* ------------------------------------------------------------------ *)
\* C3: a classified row in which fields 2, 3, 4, 5 and 6 all equal 'null' is in
\* the no_info stream and in no other, whatever its primary identifier is.
C3_NoAuxIsNoInfo ==
    \A k \in 1..RowsDone :
       Len(input[k]) >= 7 /\ (\A i \in 2..6 : input[k][i + 1] = NULL) =>
          OnlyIn(no_info_out, k)

\* a row with a real identifier and nothing in fields 2..6, written
C3_Witness ==
    /\ RowsDone >= 1
    /\ Len(input[1]) = 10
    /\ input[1][1] = NAME
    /\ \A i \in 2..6 : input[1][i + 1] = NULL
    /\ From(no_info_out, 1) # {}

(* ------------------------------------------------------------------ *)
(* Resolution, as the properties speak of it                           *)
(* ------------------------------------------------------------------ *)
\* the structure has a carbon atom
HasCarbon(m) == m.kind = "Mol" /\ \E i \in DOMAIN m.atoms : m.atoms[i] = 6

\* the identifier resolves under SMILES: it is not empty, not 'null', starts
\* with '[' and the toolkit parses it
ResolvesSmiles(id) ==
    id # <<>> /\ id # NULL /\ id[1] = "[" /\ toolkit.smiles.kind = "Mol"

\* the identifier resolves under InChI
ResolvesInchi(id) ==
    id # <<>> /\ id # NULL /\ toolkit.inchi.kind = "Mol"

\* the primary identifier of the row being (or last) classified
CurrentId == input[Len(input)][1]

\* the structure of the first format, in the order IUPAC, SMILES, InChI, under
\* which the current identifier resolves; IUPAC resolution is what the two
\* services answered for this row
FirstStructure ==
    IF iupac_valid THEN iupac_mol
    ELSE IF ResolvesSmiles(CurrentId) THEN toolkit.smiles
    ELSE IF ResolvesInchi(CurrentId) THEN toolkit.inchi
    ELSE None

FirstFlags ==
    IF iupac_valid THEN <<YES, NO, NO>>
    ELSE IF ResolvesSmiles(CurrentId) THEN <<NO, YES, NO>>
    ELSE IF ResolvesInchi(CurrentId) THEN <<NO, NO, YES>>
    ELSE <<NO, NO, NO>>

\* Chem.MolToSmiles raised for the current row
CanonFailed == \E i \in DOMAIN calls : calls[i] = "raise"

\* the latest row has been classified, and it went through resolution
ResolvedRowDone == LastDone /\ ReachedResolution

(* ------------------------------------------------------------------ *)
(* C4                                                                  *)
(* ------------------------------------------------------------------ *)
\* C4 as stated: a classified record (as wide as the header) whose primary
\* identifier resolves to a carbon-containing structure under some format is in
\* the valid stream, with the flag of a format under which it so resolves 'Yes'
\* and the other two 'No'.
C4_AsStated ==
    \A k \in 1..RowsDone :
       Len(input[k]) = Len(header) =>
          LET id == input[k][1]
              R == { f \in {1, 2, 3} :
                       \/ f = 1 /\ k = Len(input) /\ LastDone /\ iupac_valid
                                /\ HasCarbon(iupac_mol)
                       \/ f = 2 /\ ResolvesSmiles(id) /\ HasCarbon(toolkit.smiles)
                       \/ f = 3 /\ ResolvesInchi(id) /\ HasCarbon(toolkit.inchi) }
          IN  R # {} =>
                /\ OnlyIn(valid_out, k)
                /\ \E f \in R :
                      Flags(TheEntry(valid_out, k).fields)
                        = [j \in 1..3 |-> IF j = f THEN YES ELSE NO]

\* C4 (amended): a record that reaches the resolution step, whose first
\* resolving format in the order IUPAC, SMILES, InChI yields a
\* carbon-containing structure, and whose canonical form is computed without an
\* exception, is in the valid stream and in no other, with that format's flag
\* 'Yes' and the other two 'No'.
C4_FirstCarbonIsValid ==
    ResolvedRowDone /\ HasCarbon(FirstStructure) /\ ~CanonFailed =>
       /\ OnlyIn(valid_out, Len(input))
       /\ Flags(TheEntry(valid_out, Len(input)).fields) = FirstFlags

\* row 1 is valid through IUPAC, row 2 through InChI
C4_Witness ==
    /\ ResolvedRowDone
    /\ Len(input) = 2
    /\ From(valid_out, 1) # {} /\ From(valid_out, 2) # {}
    /\ Flags(TheEntry(valid_out, 1).fields) = <<YES, NO, NO>>
    /\ Flags(TheEntry(valid_out, 2).fields) = <<NO, NO, YES>>
    /\ HasCarbon(FirstStructure)

(* ------------------------------------------------------------------ *)
(* C5                                                                  *)
(* ------------------------------------------------------------------ *)
\* C5: a row that reaches resolution and whose first resolved structure has no
\* carbon atom is in the invalid stream and not in the valid stream; and every
\* data row of the valid stream begins with the canonical form of a structure
\* that has a carbon atom.
C5_CarbonFreeIsInvalid ==
    /\ ResolvedRowDone /\ FirstStructure.kind = "Mol" /\ ~HasCarbon(FirstStructure) =>
          OnlyIn(invalid_out, Len(input))
    /\ \A i \in DataRows(valid_out) :
          \E m \in {MolC, MolNa} :
             HasCarbon(m) /\ valid_out[i].fields[1] = m.canon

\* a row resolved through SMILES to the sodium ion, written to invalid
C5_Witness ==
    /\ ResolvedRowDone
    /\ ~iupac_valid /\ smiles_valid /\ smiles_mol = MolNa
    /\ From(invalid_out, Len(input)) # {}
    /\ TheEntry(invalid_out, Len(input)).fields[1] = MolNa.canon

(* ------------------------------------------------------------------ *)
(* C6                                                                  *)
(* ------------------------------------------------------------------ *)
\* C6: a row that reaches resolution and whose primary identifier resolves
\* under none of IUPAC, SMILES and InChI is in the invalid stream and in no
\* other, and what was written is the row followed by 'No', 'No', 'No'.
C6_UnresolvedIsInvalid ==
    ResolvedRowDone /\ FirstStructure = None =>
       /\ OnlyIn(invalid_out, Len(input))
       /\ TheEntry(invalid_out, Len(input)).fields
            = input[Len(input)] \o <<NO, NO, NO>>

\* a named row for which both services and both parsers were tried in vain
C6_Witness ==
    /\ ResolvedRowDone
    /\ CurrentId = NAME
    /\ FirstStructure = None
    /\ toolkit.inchi = None
    /\ \E i \in DOMAIN calls : calls[i] = "fetch_smiles_from_pubchem"
    /\ Attempted("inchi")
    /\ From(invalid_out, Len(input)) # {}

(* ------------------------------------------------------------------ *)
(* C7                                                                  *)
(* ------------------------------------------------------------------ *)
\* the validate_identifier calls of the current row, in order
Attempts ==
    SelectSeq(calls, LAMBDA c : c \in { "validate_identifier:iupac",
                                        "validate_identifier:smiles",
                                        "validate_identifier:inchi" })

\* the number of 'Yes' among the last three fields
YesCount(fields) ==
    Cardinality({ j \in 0..2 : fields[Len(fields) - j] = YES })

\* C7: resolution is attempted in the order IUPAC, SMILES, InChI and stops at
\* the first format that resolves: SMILES is attempted only after IUPAC was
\* unresolved, InChI only after IUPAC and SMILES both were; every row of the
\* valid and invalid streams has at most one 'Yes' flag, and an identifier that
\* resolves under both SMILES and InChI (and not under IUPAC) gets the SMILES
\* flag alone.
C7_PriorityOrder ==
    /\ Attempts \in { <<>>,
                      <<"validate_identifier:iupac">>,
                      <<"validate_identifier:iupac", "validate_identifier:smiles">>,
                      <<"validate_identifier:iupac", "validate_identifier:smiles",
                        "validate_identifier:inchi">> }
    /\ Attempted("smiles") => ~iupac_valid
    /\ Attempted("inchi") => ~iupac_valid /\ ~smiles_valid
    /\ \A i \in DataRows(valid_out) : YesCount(valid_out[i].fields) <= 1
    /\ \A i \in DataRows(invalid_out) : YesCount(invalid_out[i].fields) <= 1
    /\ ResolvedRowDone /\ ~iupac_valid /\ ~CanonFailed
         /\ ResolvesSmiles(CurrentId) /\ ResolvesInchi(CurrentId) =>
          \E s \in {valid_out, invalid_out} :
             /\ OnlyIn(s, Len(input))
             /\ Flags(TheEntry(s, Len(input)).fields) = <<NO, YES, NO>>

\* an identifier both parsers accept: SMILES resolved it, InChI was never tried
C7_Witness ==
    /\ ResolvedRowDone
    /\ ~iupac_valid /\ smiles_valid
    /\ ResolvesSmiles(CurrentId) /\ ResolvesInchi(CurrentId)
    /\ ~Attempted("inchi")
    /\ From(valid_out, Len(input)) # {}
    /\ Flags(TheEntry(valid_out, Len(input)).fields) = <<NO, YES, NO>>

(* ------------------------------------------------------------------ *)
(* C8                                                                  *)
(* ------------------------------------------------------------------ *)
\* wait_for_cactus_service has just returned to its caller
WaitReturned == pc = "open" \/ (pc = "cirpy" /\ downs > 0)

\* C8: wait_for_cactus_service returns only after a probe that succeeded, and
\* sleeps exactly once after each failed probe, be the failure an exception or
\* a non-success status: while it runs the sleeps done equal the failed probes
\* (less the one being slept on), and when it returns after n failed probes it
\* has slept n times; a failed probe never ends the call.
C8_WaitBlocksUntilSuccess ==
    /\ pc = "wait_probe" => sleeps = probe_fails /\ last_probe # "ok"
    /\ pc = "wait_sleep" =>
          sleeps + 1 = probe_fails /\ last_probe \in {"not_ok", "exception"}
    /\ WaitReturned => last_probe = "ok" /\ sleeps = probe_fails
    /\ last_probe \in {"not_ok", "exception"} => pc \in {"wait_probe", "wait_sleep"}

\* the probe failed twice, then succeeded: the wait returns after two sleeps
C8_Witness ==
    /\ WaitReturned
    /\ last_probe = "ok"
    /\ probe_fails = 2
    /\ sleeps = 2

(* ------------------------------------------------------------------ *)
(* C9                                                                  *)
(* ------------------------------------------------------------------ *)
\* C9: no exception leaves validate_identifier: every call hands back a pair
\* (resolved, structure), with a structure exactly when resolved; a toolkit
\* exception in the SMILES or InChI branch yields (False, None) and the caller
\* goes on with the next step of the row.
C9_ResolverNeverRaises ==
    /\ ~vi_raised
    /\ iupac_valid <=> iupac_mol.kind = "Mol"
    /\ smiles_valid <=> smiles_mol.kind = "Mol"
    /\ inchi_valid <=> inchi_mol.kind = "Mol"
    /\ {iupac_mol.kind, smiles_mol.kind, inchi_mol.kind} \subseteq {"None", "Mol"}
    /\ Attempted("smiles") /\ ResolvesSmiles(CurrentId) = FALSE =>
          ~smiles_valid /\ smiles_mol = None
    /\ Attempted("smiles") /\ toolkit.smiles = Raise =>
          pc = "inchi" \/ Attempted("inchi")
    /\ Attempted("inchi") /\ toolkit.inchi = Raise =>
          /\ ~inchi_valid /\ inchi_mol = None
          /\ pc = "finish" \/ (LastDone /\ OnlyIn(invalid_out, Len(input)))

\* both parsers raised for a bracketed identifier, and the row goes on
C9_Witness ==
    /\ pc = "finish"
    /\ CurrentId = BRACKET
    /\ toolkit.smiles = Raise /\ toolkit.inchi = Raise
    /\ \E i \in DOMAIN calls : calls[i] = "MolFromSmiles"
    /\ \E i \in DOMAIN calls : calls[i] = "MolFromInchi"
    /\ ~smiles_valid /\ ~inchi_valid

(* ------------------------------------------------------------------ *)
(* C10                                                                 *)
(* ------------------------------------------------------------------ *)
\* C10: the header of the no_info stream is the first ten columns of the input
\* header, and the header of the valid and of the invalid stream is the
\* canonical-structure column, then the input header, then the three flag
\* columns.
C10_Headers ==
    files_open =>
       /\ no_info_out[1].fields = FirstTen(header)
       /\ valid_out[1].fields =
             <<CANONICAL_SMILES>> \o header
               \o <<IUPAC_RESOLVED, SMILES_RESOLVED, INCHI_RESOLVED>>
       /\ invalid_out[1].fields = valid_out[1].fields

(* ------------------------------------------------------------------ *)
(* C11                                                                 *)
(* ------------------------------------------------------------------ *)
\* the data entries of the valid and of the invalid stream
EnrichedEntries ==
    { valid_out[i] : i \in DataRows(valid_out) }
       \cup { invalid_out[i] : i \in DataRows(invalid_out) }

\* C11: every data row of the valid and of the invalid stream is the input row
\* with one canonical-structure field before it and the three flags after it;
\* stated here for the input rows that are as wide as the input header: the
\* written row is then as wide as the header of the stream (input width + 4)
\* and the input fields sit in columns 2 .. width + 1, under their headers.
C11_EnrichedRecord ==
    \A e \in EnrichedEntries :
       Len(input[e.src]) = Len(header) =>
          /\ Len(e.fields) = Len(input[e.src]) + 4
          /\ Len(e.fields) = Len(invalid_out[1].fields)
          /\ SubSeq(e.fields, 2, Len(e.fields) - 3) = input[e.src]

(* ------------------------------------------------------------------ *)
(* C12                                                                 *)
(* ------------------------------------------------------------------ *)
\* input row k ran into the IndexError of row[0] or of the scan of row[2..6]
IndexFault(k) == row_head(input[k]) = "IndexError"

\* the row just finished ended in the except clause of the row
LastFaulted == LastDone /\ (IndexFault(Len(input)) \/ CanonFailed)

\* input row k was written by the except clause: to invalid, as read, No No No
ForcedInvalid(k) ==
    /\ OnlyIn(invalid_out, k)
    /\ TheEntry(invalid_out, k).fields = input[k] \o <<NO, NO, NO>>

\* input row k is in exactly one of the three streams
Classified(k) ==
    Cardinality(From(valid_out, k)) + Cardinality(From(invalid_out, k))
       + Cardinality(From(no_info_out, k)) = 1

\* C12: a row whose classification raises (an index error on a short row, a
\* failure of the canonical form) is written to the invalid stream with the
\* flags No, No, No; the loop then stands at the next row with the files open,
\* the next row can be read, and the row read after a faulted row is
\* classified into one stream.
C12_RowFaultIsInvalid ==
    /\ \A k \in 1..RowsDone :
          IndexFault(k) =>
             /\ ForcedInvalid(k)
             /\ k < RowsDone => Classified(k + 1)
    /\ LastFaulted =>
          /\ ForcedInvalid(Len(input))
          /\ files_open
          /\ Len(input) < MaxRows => ENABLED RowHead

\* row 1 was too short, row 2 failed in the canonical form and is in invalid
C12_Witness ==
    /\ Len(input) = 2
    /\ IndexFault(1)
    /\ ForcedInvalid(1)
    /\ LastDone /\ CanonFailed
    /\ ForcedInvalid(2)

(* ------------------------------------------------------------------ *)
(* C13                                                                 *)
(* ------------------------------------------------------------------ *)
\* what validate_identifier(id, 'iupac') returns, from the recorded answers
IupacFrom(id, answers) ==
    IF id = NULL \/ id = EMPTY
    THEN [valid |-> FALSE, mol |-> None]
    ELSE LET one == stage(answers.cirpy)
             two == stage(fetch_smiles_from_pubchem(answers.pubchem))
         IN  IF answers.cirpy.kind # "unasked" /\ one.yield
             THEN [valid |-> TRUE, mol |-> one.mol]
             ELSE IF answers.pubchem.kind # "unasked" /\ two.yield
                  THEN [valid |-> TRUE, mol |-> two.mol]
                  ELSE [valid |-> FALSE, mol |-> None]

\* the stream and the fields of the one row that input row r is written as,
\* computed from r, the toolkit's parse results and the recorded answers alone
OutputFrom(r, answers) ==
    LET h == row_head(r)
    IN  IF h = "IndexError"
        THEN [stream |-> "invalid", fields |-> r \o <<NO, NO, NO>>]
        ELSE IF h = "no_info"
        THEN [stream |-> "no_info", fields |-> FirstTen(r)]
        ELSE LET i == IupacFrom(r[1], answers)
                 s == IF i.valid
                      THEN [valid |-> FALSE, mol |-> None]
                      ELSE validate_identifier(r[1], "smiles")
                 n == IF i.valid \/ s.valid
                      THEN [valid |-> FALSE, mol |-> None]
                      ELSE validate_identifier(r[1], "inchi")
                 c == classify(r, i.valid, i.mol, s.valid, s.mol, n.valid, n.mol,
                               answers.canon.kind # "raise")
             IN  [stream |-> c.stream, fields |-> c.fields]

\* the stream of that name
StreamOf(name) ==
    CASE name = "valid" -> valid_out
      [] name = "invalid" -> invalid_out
      [] name = "no_info" -> no_info_out

\* C13: the bucket, the canonical string and the flags of a written row are a
\* function of the input row, the parse results and the answers the services
\* gave for that row: whenever a row has been classified, what was written is
\* what that function gives, whatever rows came before and however long the
\* probes failed; so two runs on the same input with the same answers write
\* the same rows.
C13_OutputIsFunctionOfAnswers ==
    LastDone =>
       LET k == Len(input)
           out == OutputFrom(input[k], resp)
       IN  /\ OnlyIn(StreamOf(out.stream), k)
           /\ TheEntry(StreamOf(out.stream), k).fields = out.fields

\* row 2 was resolved by PubChem after cirpy returned nothing, behind a row 1
\* of another bucket
C13_Witness ==
    /\ LastDone
    /\ Len(input) = 2
    /\ OnlyIn(no_info_out, 1)
    /\ resp.cirpy.kind = "none"
    /\ resp.pubchem = [kind |-> "str", s |-> S_OC]
    /\ resp.canon.kind = "ok"
    /\ OnlyIn(valid_out, 2)

(* ------------------------------------------------------------------ *)
(* C14                                                                 *)
(* ------------------------------------------------------------------ *)
\* the call of that name was made for the current row
Made(name) == \E i \in DOMAIN calls : calls[i] = name

\* resolve_with_cirpy is inside its call of wait_for_cactus_service
InCirpyWait == pc \in {"wait_probe", "wait_sleep"} /\ wait_ret = "cirpy"

\* stage 1 of the IUPAC chain has not come to its end
Stage1Running == pc = "cirpy" \/ InCirpyWait

\* the error texts that carry the backend-down signature
SignatureTexts == {E_504, E_TIMEOUT, E_CONNECTION}

Yields(answer) == answer.kind = "str" /\ MolFromSmiles(answer.s).kind = "Mol"

\* stage 1 has come to its end, stage 2 has come to its end
Stage1Over == resp.cirpy # Unasked
Stage2Over == resp.pubchem # Unasked

\* C15: the PubChem lookup is called exactly when stage 1 ended without a
\* structure (cirpy returned nothing, a string that does not parse, or raised
\* an error without the backend-down signature); when stage 1 yields a
\* structure the lookup is not called and the IUPAC result is resolved with
\* that structure; when both stages end without a structure the IUPAC result
\* is unresolved, with no structure.
C15_Stage2IffStage1Failed ==
    /\ Made("fetch_smiles_from_pubchem") <=> Stage2Over
    /\ Stage2Over => Stage1Over /\ ~Yields(resp.cirpy)
    /\ Stage1Over /\ ~Yields(resp.cirpy) => pc = "pubchem" \/ Stage2Over
    /\ Stage1Over /\ Yields(resp.cirpy) =>
          /\ pc # "pubchem" /\ ~Stage2Over
          /\ iupac_valid
          /\ iupac_mol = MolFromSmiles(resp.cirpy.s)
    /\ Stage2Over /\ Yields(resp.pubchem) =>
          iupac_valid /\ iupac_mol = MolFromSmiles(resp.pubchem.s)
    /\ Stage2Over /\ ~Yields(resp.pubchem) => ~iupac_valid /\ iupac_mol = None

\* cirpy returned a string that does not parse, PubChem was asked and gave a
\* structure
C15_Witness ==
    /\ pc = "finish"
    /\ resp.cirpy = [kind |-> "str", s |-> S_BAD]
    /\ resp.pubchem = [kind |-> "str", s |-> S_OC]
    /\ Made("fetch_smiles_from_pubchem")
    /\ iupac_valid /\ iupac_mol = MolC

(* ------------------------------------------------------------------ *)
(* C16                                                                 *)
(* ------------------------------------------------------------------ *)
\* where in the call log of the row the call of that name stands
Pos(name) == CHOOSE i \in DOMAIN calls : calls[i] = name

\* the SMILES branch of validate_identifier called the parser
ParsedBySmilesBranch ==
    /\ Attempted("smiles")
    /\ Made("MolFromSmiles")
    /\ Pos("MolFromSmiles") > Pos("validate_identifier:smiles")

\* identifiers of the input that do not begin with '['
NoBracketIds == {EMPTY, NULL, FAILED, NAME, X, REF}

\* the row being (or last) classified went into validate_identifier
CurrentInResolution == Len(input) >= 1 /\ ReachedResolution

\* C16: for an empty identifier and for 'null', validate_identifier returns
\* (False, None) under every format and calls neither cirpy, PubChem, the probe
\* nor a parser; under the format SMILES an identifier that does not begin
\* with '[' gets (False, None) with no call of the parser. The first conjunct
\* asks it of the function itself wherever it is about to be called, the other
\* two of the calls the run makes.
C16_ShortCircuit ==
    /\ pc \in {"iupac", "smiles", "inchi"} =>
          /\ \A id \in {EMPTY, NULL} :
                /\ short_circuit(id)
                /\ \A fmt \in {"smiles", "inchi"} :
                      validate_identifier(id, fmt) = Returned(FALSE, None, <<>>)
          /\ \A id \in NoBracketIds :
                validate_identifier(id, "smiles") = Returned(FALSE, None, <<>>)
    /\ CurrentInResolution /\ CurrentId \in {EMPTY, NULL} =>
          /\ calls \in { <<"validate_identifier:iupac">>,
                         <<"validate_identifier:iupac", "validate_identifier:smiles">>,
                         <<"validate_identifier:iupac", "validate_identifier:smiles",
                           "validate_identifier:inchi">> }
          /\ resp = NoResp
          /\ ~Stage1Running /\ pc # "pubchem"
          /\ ~iupac_valid /\ ~smiles_valid /\ ~inchi_valid
          /\ iupac_mol = None /\ smiles_mol = None /\ inchi_mol = None
    /\ CurrentInResolution /\ CurrentId \in NoBracketIds =>
          /\ ~ParsedBySmilesBranch
          /\ ~smiles_valid /\ smiles_mol = None

\* a row with an empty identifier went through the three formats with no call
\* but the three of validate_identifier, and is unresolved
C16_Witness ==
    /\ LastDone
    /\ ReachedResolution
    /\ CurrentId = EMPTY
    /\ calls = <<"validate_identifier:iupac", "validate_identifier:smiles",
                 "validate_identifier:inchi">>
    /\ resp = NoResp
    /\ OnlyIn(invalid_out, Len(input))
    /\ Flags(TheEntry(invalid_out, Len(input)).fields) = <<NO, NO, NO>>

(* ------------------------------------------------------------------ *)
(* C17                                                                 *)
(* ------------------------------------------------------------------ *)
\* sequence s is the beginning of sequence t
Prefix(s, t) == Len(s) <= Len(t) /\ SubSeq(t, 1, Len(s)) = s

\* the data rows of stream s stand in the order of their input rows
InInputOrder(s) ==
    \A i, j \in DataRows(s) : i < j => s[i].src < s[j].src

\* C17: every step leaves what a stream already holds in place and at most
\* adds rows at its end, and the data rows of each stream stand in the order
\* in which their source rows stand in the input.
C17_OrderKept ==
    [][/\ Prefix(valid_out, valid_out')
       /\ Prefix(invalid_out, invalid_out')
       /\ Prefix(no_info_out, no_info_out')
       /\ InInputOrder(valid_out')
       /\ InInputOrder(invalid_out')
       /\ InInputOrder(no_info_out')]_vars

\* rows 1 and 2 of the input both went to the invalid stream, in that order
C17_Witness ==
    /\ Len(invalid_out) = 3
    /\ invalid_out[2].src = 1
    /\ invalid_out[3].src = 2
    /\ input[1] # input[2]

(* ------------------------------------------------------------------ *)
(* C18                                                                 *)
(* ------------------------------------------------------------------ *)
\* stream s holds nothing, or its header row and then data rows only
HeaderFirst(s) ==
    s # <<>> => s[1].src = 0 /\ \A i \in 2..Len(s) : s[i].src # 0

\* __main__ is in its first wait, or about to call process_results
BeforeHeaders ==
    \/ pc \in {"wait_probe", "wait_sleep"} /\ wait_ret = "main"
    \/ pc = "open"

\* C18: in every state each of the three streams that holds a row begins with
\* its header row and holds no second header; no row of the input has been
\* read before the three headers are written, and once they are written each
\* stream has its header.
C18_HeaderBeforeRows ==
    /\ HeaderFirst(valid_out)
    /\ HeaderFirst(invalid_out)
    /\ HeaderFirst(no_info_out)
    /\ input # <<>> =>
          valid_out # <<>> /\ invalid_out # <<>> /\ no_info_out # <<>>
    /\ BeforeHeaders =>
          input = <<>> /\ valid_out = <<>> /\ invalid_out = <<>> /\ no_info_out = <<>>
    /\ files_open =>
          /\ valid_out[1] = Entry(0, headers(header))
          /\ invalid_out[1] = Entry(0, headers(header))
          /\ no_info_out[1].src = 0

\* each of the three streams holds its header and one data row
C18_Witness ==
    /\ Len(valid_out) = 2 /\ valid_out[1].src = 0 /\ valid_out[2].src = 1
    /\ Len(no_info_out) = 2 /\ no_info_out[1].src = 0 /\ no_info_out[2].src = 2

(* ------------------------------------------------------------------ *)
(* The run under the assumption that outages clear                     *)
(* ------------------------------------------------------------------ *)
\* the probe that succeeds: resp.ok
ProbeOk == Probe /\ last_probe' = "ok"

\* cirpy.resolve answers without the backend-down signature
CirpyAnswers == CirpyCall /\ pc' # "wait_probe"

\* a failed probe and its sleep, past the failures the model counts: the loop
\* of wait_for_cactus_service has no counter and goes round again
MoreFailedProbes ==
    /\ pc = "wait_probe"
    /\ probe_fails = MaxProbeFails
    /\ \E o \in ProbeOutcomes \ {"ok", last_probe} : last_probe' = o
    /\ UNCHANGED <<pc, toolkit, header, input, row, locals, streams, files_open,
                   wait_ret, probe_fails, sleeps, downs, calls, vi_raised, resp>>
    /\ UNCHANGED sampler

\* one more backend-down error of cirpy.resolve, past the errors the model
\* counts: the loop of resolve_with_cirpy has no counter either
MoreBackendDown ==
    /\ pc = "cirpy"
    /\ downs = MaxDown
    /\ pc' = "wait_probe"
    /\ wait_ret' = "cirpy"
    /\ calls' = Log(calls, <<"cirpy.resolve">>)
    /\ probe_fails' = 0 /\ sleeps' = 0 /\ last_probe' = "none"
    /\ UNCHANGED <<toolkit, header, input, row, locals, streams, files_open,
                   downs, vi_raised, resp>>
    /\ UNCHANGED sampler

\* the runs whose end is checked: a toolkit whose parsers raise and one whose
\* SMILES parser gives a structure
FairToolkits == { [smiles |-> Raise, inchi |-> Raise], [smiles |-> MolC, inchi |-> None] }

InitFair == Init /\ toolkit \in FairToolkits

NextFair ==
    \/ Next
    \/ MoreFailedProbes
    \/ MoreBackendDown

\* every call returns and the loop goes on (weak fairness of the steps); the
\* probe succeeds at some try and cirpy.resolve at some try stops raising the
\* backend-down signature (strong fairness: each is tried again and again)
FairSpec ==
    /\ InitFair
    /\ [][NextFair]_vars
    /\ WF_vars(NextFair)
    /\ SF_vars(ProbeOk)
    /\ SF_vars(CirpyAnswers)

(* ------------------------------------------------------------------ *)
(* C19                                                                 *)
(* ------------------------------------------------------------------ *)
\* the batch is over: every row read is in one stream and the files are closed
Completed ==
    /\ pc = "done"
    /\ ~files_open
    /\ \A k \in 1..Len(input) : Classified(k)

\* a probe that fails, with its sleep to come
ProbeFails == (Probe /\ last_probe' # "ok") \/ MoreFailedProbes

\* wait_for_cactus_service is running
InWait == pc \in {"wait_probe", "wait_sleep"}

\* C19: when outages clear the run comes to its end, with every row read
\* classified and the four files closed, and stays there; the monitor is left
\* only by a probe that succeeded, and as long as it runs a probe may fail
\* once more: it has no retry cap and no way out but success.
C19_RunCompletes ==
    /\ <>[]Completed
    /\ [][InWait /\ ~InWait' => last_probe' = "ok"]_vars
    /\ [](pc = "wait_probe" => ENABLED ProbeFails)

\* the run is over after a row that waited for the service and a row that
\* raised
C19_Witness ==
    /\ Completed
    /\ Len(input) = MaxRows
    /\ wait_ret = "cirpy"
    /\ IndexFault(2)

(* ------------------------------------------------------------------ *)
(* C20                                                                 *)
(* ------------------------------------------------------------------ *)
\* input row k has 'null' or 'failed' as its identifier, or 'null' in each of
\* its fields 2..6
NoInfoRow(k) ==
    /\ Len(input[k]) >= 1
    /\ \/ input[k][1] \in {NULL, FAILED}
       \/ Len(input[k]) >= 7 /\ \A i \in 3..7 : input[k][i] = NULL

\* C20: a row that ends in the no_info branch is read and written in one step
\* of the loop, with no call in between: while a row is in resolution, or the
\* monitor runs for it, the row is not such a row; and when such a row is the
\* latest row read, the loop stands at the next row (or the batch is over)
\* with an empty call log, no answer recorded and the row in the no_info file.
C20_NoInfoMakesNoCall ==
    Len(input) >= 1 /\ NoInfoRow(Len(input)) =>
       /\ ~InProgress
       /\ pc \in {"next", "done"}
       /\ calls = <<>>
       /\ resp = NoResp
       /\ OnlyIn(no_info_out, Len(input))
       /\ probe_fails = 0 /\ sleeps = 0 /\ last_probe = "none"

\* a row whose fields 2..6 are all 'null' was written to no_info behind a row
\* that went through resolution, and the loop is at the next row
C20_Witness ==
    /\ pc = "next"
    /\ Len(input) = 2
    /\ row_head(input[1]) = "resolve"
    /\ NoInfoRow(2)
    /\ input[2][1] = NAME
    /\ calls = <<>>
    /\ OnlyIn(no_info_out, 2)

(* ------------------------------------------------------------------ *)
(* sample_results.py: process_csv                                      *)
(* ------------------------------------------------------------------ *)
\* data lines in the file given to process_csv, after its first line
MaxLines == 2
\* valid_df.sample(n=min(100, len(valid_df))): the cap on a sample, scaled to
\* the files of the model
SampleCap == 1

\* a cell that pandas filled in for a line shorter than the first line
NaN == <<"NaN">>
PAPER_REFERENCE == <<"P", "R">>

\* the first line of the file: the column names, the last one for the paper
HeaderLines == { <<H(0), H(1), H(2)>> }

\* the lines after it
LineSet ==
    { <<X, X, REF>>,             \* data and a paper reference
      <<X, EMPTY, NAME>>,        \* another such line
      <<NULL, NULL, REF>>,       \* every data column 'null'
      <<FAILED, X, REF>>,        \* a data column 'failed'
      <<X, X, EMPTY>>,           \* no paper reference
      <<EMPTY, EMPTY, REF>>,     \* every data column empty
      <<X>>,                     \* shorter than the first line
      <<X, X, REF, X>> }         \* longer than the first line

RECURSIVE FilesOf(_)
\* the files with a first line and n lines after it
FilesOf(n) ==
    IF n = 0
    THEN { <<h>> : h \in HeaderLines }
    ELSE { Append(f, l) : f \in FilesOf(n - 1), l \in LineSet }

Files == UNION { FilesOf(n) : n \in 0..MaxLines }

\* the permutations of 1..n
Perms(n) == { p \in [1..n -> 1..n] : \A i, j \in 1..n : p[i] = p[j] => i = j }

\* the ways to draw n of the m rows, in some order
Draws(n, m) == { d \in [1..n -> 1..m] : \A i, j \in 1..n : d[i] = d[j] => i = j }

\* a line padded with NaN to the width w
padded(line, w) == [i \in 1..w |-> IF i <= Len(line) THEN line[i] ELSE NaN]

RECURSIVE read_rows(_, _, _)
\* pd.read_csv(header=None, on_bad_lines='skip'): the width is that of the
\* first line, a longer line is skipped, a shorter one padded; the first line
\* is row 0 of the frame like any other
read_rows(file, i, w) ==
    IF i > Len(file)
    THEN <<>>
    ELSE IF Len(file[i]) > w
         THEN read_rows(file, i + 1, w)
         ELSE <<Entry(i - 1, padded(file[i], w))>> \o read_rows(file, i + 1, w)

read_csv(file) == read_rows(file, 1, Len(file[1]))

\* data_columns = row.iloc[:paper_col_index].fillna('')
data_columns(fields) ==
    [i \in 1..(Len(fields) - 1) |-> IF fields[i] = NaN THEN EMPTY ELSE fields[i]]

\* the body of the iterrows loop: where a row of the frame goes
category(fields) ==
    LET data == data_columns(fields)
        paper_reference == fields[Len(fields)]
        actual_columns == Cardinality({ i \in DOMAIN fields : fields[i] # NaN })
    IN  IF actual_columns > Len(fields)
           \/ paper_reference = NaN \/ paper_reference = EMPTY
        THEN "skip"
        ELSE IF \A i \in DOMAIN data : data[i] = NULL
             THEN "null"
             ELSE IF \E i \in DOMAIN data : data[i] = FAILED
                  THEN "failed"
                  ELSE "valid"

\* valid_df[~(data_columns_valid == '').all(axis=1)]
not_all_empty(e) ==
    ~(\A i \in DOMAIN data_columns(e.fields) : data_columns(e.fields)[i] = EMPTY)

\* n=min(100, len(...))
sample_size(len) == IF SampleCap < len THEN SampleCap ELSE len

\* validate_results.py is not running
ValidatorIdle ==
    /\ pc = "idle"
    /\ toolkit = [smiles |-> None, inchi |-> None]
    /\ header = <<>> /\ input = <<>> /\ row = <<>>
    /\ iupac_valid = FALSE /\ iupac_mol = None
    /\ smiles_valid = FALSE /\ smiles_mol = None
    /\ inchi_valid = FALSE /\ inchi_mol = None
    /\ valid_out = <<>> /\ invalid_out = <<>> /\ no_info_out = <<>>
    /\ files_open = FALSE
    /\ wait_ret = "main"
    /\ probe_fails = 0 /\ sleeps = 0 /\ last_probe = "none"
    /\ downs = 0
    /\ calls = <<>>
    /\ vi_raised = FALSE
    /\ resp = NoResp

\* a line of an output file: the header line the code writes itself, or a row
\* of a frame
Line(is_header, e) == [header |-> is_header, src |-> e.src, fields |-> e.fields]

\* the rows of frame f that draw d picks, in the order of the draw
Drawn(f, d) == [i \in DOMAIN d |-> f[d[i]]]

\* df = pd.read_csv(...); original_headers = df.iloc[0].tolist()
ReadCsv ==
    /\ at = "read"
    /\ df' = read_csv(csv_file)
    /\ original_headers' = read_csv(csv_file)[1].fields
    /\ at' = "shuffle"
    /\ UNCHANGED <<csv_file, index, valid_rows, null_rows, failed_rows,
                   valid_df, null_df, failed_df, valid_csv, null_csv, failed_csv>>
    /\ UNCHANGED vars

\* df = df.sample(frac=1, random_state=42).reset_index(drop=True): the whole
\* frame, row 0 included, in the order the generator gives
Shuffle ==
    /\ at = "shuffle"
    /\ \E p \in Perms(Len(df)) : df' = Drawn(df, p)
    /\ index' = 0
    /\ at' = "iterate"
    /\ UNCHANGED <<csv_file, original_headers, valid_rows, null_rows, failed_rows,
                   valid_df, null_df, failed_df, valid_csv, null_csv, failed_csv>>
    /\ UNCHANGED vars

\* for index, row in df.iterrows(): one pass of the loop body
IterRow ==
    /\ at = "iterate"
    /\ index < Len(df)
    /\ index' = index + 1
    /\ LET e == df[index + 1]
           c == category(e.fields)
           paper == Entry(e.src, <<e.fields[Len(e.fields)]>>)
       IN  /\ valid_rows' = IF c = "valid" THEN Append(valid_rows, e) ELSE valid_rows
           /\ null_rows' = IF c = "null" THEN Append(null_rows, paper) ELSE null_rows
           /\ failed_rows' = IF c = "failed" THEN Append(failed_rows, paper)
                             ELSE failed_rows
    /\ UNCHANGED <<at, csv_file, df, original_headers,
                   valid_df, null_df, failed_df, valid_csv, null_csv, failed_csv>>
    /\ UNCHANGED vars

\* the three frames made of the lists, valid_df without its all-empty rows
MakeFrames ==
    /\ at = "iterate"
    /\ index = Len(df)
    /\ valid_df' = SelectSeq(valid_rows, not_all_empty)
    /\ null_df' = null_rows
    /\ failed_df' = failed_rows
    /\ at' = "sample"
    /\ UNCHANGED <<csv_file, df, original_headers, index, valid_rows, null_rows,
                   failed_rows, valid_csv, null_csv, failed_csv>>
    /\ UNCHANGED vars

\* the three .sample(n=min(100, len), random_state=42)
Sample ==
    /\ at = "sample"
    /\ \E d \in Draws(sample_size(Len(valid_df)), Len(valid_df)) :
          valid_df' = Drawn(valid_df, d)
    /\ \E d \in Draws(sample_size(Len(null_df)), Len(null_df)) :
          null_df' = Drawn(null_df, d)
    /\ \E d \in Draws(sample_size(Len(failed_df)), Len(failed_df)) :
          failed_df' = Drawn(failed_df, d)
    /\ at' = "write"
    /\ UNCHANGED <<csv_file, df, original_headers, index, valid_rows, null_rows,
                   failed_rows, valid_csv, null_csv, failed_csv>>
    /\ UNCHANGED vars

\* a frame written with its column name, or not written when it is empty
paper_file(f) ==
    IF f = <<>>
    THEN <<>>
    ELSE <<Line(TRUE, Entry(0, <<PAPER_REFERENCE>>))>>
            \o [i \in DOMAIN f |-> Line(FALSE, f[i])]

\* valid.csv: the original headers, then valid_df; null.csv and failed.csv
WriteFiles ==
    /\ at = "write"
    /\ valid_csv' = <<Line(TRUE, Entry(0, original_headers))>>
                       \o [i \in DOMAIN valid_df |-> Line(FALSE, valid_df[i])]
    /\ null_csv' = paper_file(null_df)
    /\ failed_csv' = paper_file(failed_df)
    /\ at' = "done"
    /\ UNCHANGED <<csv_file, df, original_headers, index, valid_rows, null_rows,
                   failed_rows, valid_df, null_df, failed_df>>
    /\ UNCHANGED vars

SamplerInit ==
    /\ ValidatorIdle
    /\ at = "read"
    /\ csv_file \in Files
    /\ df = <<>> /\ original_headers = <<>> /\ index = 0
    /\ valid_rows = <<>> /\ null_rows = <<>> /\ failed_rows = <<>>
    /\ valid_df = <<>> /\ null_df = <<>> /\ failed_df = <<>>
    /\ valid_csv = <<>> /\ null_csv = <<>> /\ failed_csv = <<>>

SamplerNext ==
    \/ ReadCsv
    \/ Shuffle
    \/ IterRow
    \/ MakeFrames
    \/ Sample
    \/ WriteFiles

SamplerSpec == SamplerInit /\ [][SamplerNext]_<<vars, sampler>>

\* the header row of the input file, wherever the shuffle put it
IsHeaderRow(e) == e.src = 0

\* the lines of valid.csv that are rows of valid_df
DataLines == { i \in DOMAIN valid_csv : ~valid_csv[i].header }

\* the lines of valid.csv that read as the input file's header
HeaderCopies == { i \in DOMAIN valid_csv : valid_csv[i].fields = original_headers }

\* C21: the input file's header row is used only as the header line of
\* valid.csv: it is never classified as a data row (it is in none of the three
\* lists and frames) and it is none of the sampled data rows of valid.csv, so a
\* written valid.csv holds the header exactly once and at most SampleCap data
\* rows
C21_HeaderOnlyOnce ==
    /\ \A i \in DOMAIN valid_rows : ~IsHeaderRow(valid_rows[i])
    /\ \A i \in DOMAIN null_rows : ~IsHeaderRow(null_rows[i])
    /\ \A i \in DOMAIN failed_rows : ~IsHeaderRow(failed_rows[i])
    /\ \A i \in DOMAIN valid_df : ~IsHeaderRow(valid_df[i])
    /\ at = "done" =>
          /\ \A i \in DataLines : ~IsHeaderRow(valid_csv[i])
          /\ Cardinality(HeaderCopies) = 1
          /\ Cardinality(DataLines) <= SampleCap

====
